---- MODULE Spec2Model ----
(***************************************************************************)
(* Model of src/Options_Chart.py: the ContractAnalyzer pipeline            *)
(* (search -> option chain / latest price -> candle history ->             *)
(* indicators -> analyze / analysis_summary) and the batch loop of main(). *)
(*                                                                         *)
(* Representation.                                                         *)
(*  - Python None is the record None; a contract id, search id or scrip    *)
(*    code that is None, missing or empty is NoId (all are falsy for the   *)
(*    code's "if not x" tests).                                            *)
(*  - strikePrice is the integer the chain carries (scaled x100); the      *)
(*    latest price is kept in the same unit (hundredths), so that          *)
(*    abs(strikePrice/100 - ltp) is Dist/100 and the order of the keys of  *)
(*    min() is the order of Dist.                                          *)
(*  - a DataFrame is [tag, rows, columns]: rows is the sequence of the     *)
(*    original candle positions (1..n) it still holds.                     *)
(*  - a gateway reply that makes the code raise inside its try block       *)
(*    (transport error, HTTP error status, malformed payload) has tag      *)
(*    "error".                                                             *)
(***************************************************************************)
EXTENDS Integers, Sequences, FiniteSets, TLC

VARIABLES
    upstream,          \* the market-data service's replies for the current ticker
    lib,               \* behaviour of the indicator library build (see AdxRaises)
    self,              \* the ContractAnalyzer instance's mutable fields
    gateway,           \* requests issued so far, per gateway operation
    page,              \* the messages written to the Streamlit page so far
    op,                \* the last method called, with its argument
    ret,               \* what that method returned
    calls,             \* requests issued by each stage invocation of the last run
    results,           \* last value returned by analyze()
    prev_results,      \* value returned by the analyze() call before that
    contracts_results, \* last value returned by analysis_summary()
    runs,              \* number of analyze()/analysis_summary() calls on the instance
    pc,                \* position of main()'s loop
    ticker,            \* index of the ticker main() is processing
    charts,            \* charts plotted by main(): <<ticker, leg, rows>>
    call_data_list,    \* main()'s CALL rows
    put_data_list      \* main()'s PUT rows

vars == <<upstream, lib, self, gateway, page, op, ret, calls, results, prev_results,
          contracts_results, runs, pc, ticker, charts, call_data_list, put_data_list>>

----------------------------------------------------------------------------
(* Bounds of the model *)

MaxChain == 2      \* longest option chain
MaxCandles == 40   \* longest candle history
MaxRuns == 3       \* analyze()/analysis_summary() calls on one instance
MaxTickers == 2    \* rows of the uploaded ticker file
MaxDirect == 2     \* direct calls of one stage method

----------------------------------------------------------------------------
(* Values *)

None == [tag |-> "None"]
NoId == 0

Strikes == {9900, 10100}
Prices == {9950, 10000}

CallIdOf(strike) == strike + 1
PutIdOf(strike) == strike + 2
IsCallId(id) == id % 10 = 1

\* the entries carry the ids of their own strike
Entry(s, hasCall, hasPut) ==
    [strikePrice |-> s,
     callOption |-> IF hasCall THEN CallIdOf(s) ELSE NoId,
     putOption |-> IF hasPut THEN PutIdOf(s) ELSE NoId]

Entries == { Entry(s, c, p) : s \in Strikes, c \in BOOLEAN, p \in BOOLEAN }

SeqsUpTo(S, n) == UNION { [1..k -> S] : k \in 0..n }

----------------------------------------------------------------------------
(* Gateway replies *)

SearchItems ==
    { [search_id |-> a, nse_scrip_code |-> b] : a \in {NoId, 7}, b \in {NoId, 8} }

\* searchSecurity: an error, or data.content (only items[0] is read)
SearchReplies ==
    { [tag |-> "error"], [tag |-> "ok", items |-> <<>>] }
    \cup { [tag |-> "ok", items |-> <<i>>] : i \in SearchItems }

\* listOptionChain: an error, or optionChain.optionChains
ChainReplies ==
    { [tag |-> "error"] }
    \cup { [tag |-> "ok", optionChains |-> c] : c \in SeqsUpTo(Entries, MaxChain) }

\* latestPrice: an error, a payload without 'ltp' (None), or the price
PriceReplies ==
    { [tag |-> "error"], [tag |-> "null"] }
    \cup { [tag |-> "ok", ltp |-> p] : p \in Prices }

\* candleHistory: an error, or the number of candles of the payload
CandleReply(n) == [tag |-> "ok", candles |-> n]
CandleError == [tag |-> "error"]

CandleHistory(up, contract_id) ==
    IF IsCallId(contract_id) THEN up.candles.call ELSE up.candles.put

----------------------------------------------------------------------------
(* ContractAnalyzer.__init__ *)

NewAnalyzer ==
    [search_id |-> NoId, nse_scrip_code |-> NoId,
     call_contract_id |-> NoId, put_contract_id |-> NoId]

NoRequests == [search |-> 0, chain |-> 0, price |-> 0, candle |-> 0]

\* st.error / st.warning of a method
Error(method) == << [level |-> "error", at |-> method] >>
Warning(method) == << [level |-> "warning", at |-> method] >>

----------------------------------------------------------------------------
(* ContractAnalyzer.fetch_ticker_details *)

\* variant: the empty result list is not rejected
fetch_ticker_details_NoEmptyCheck(slf, up) ==
    IF up.search.tag = "error"
    THEN [ok |-> FALSE, self |-> slf, search |-> 1,
          page |-> Error("fetch_ticker_details")]
    ELSE LET items == up.search.items IN
         IF items = <<>>
         THEN [ok |-> TRUE, self |-> slf, search |-> 1, page |-> <<>>]
         ELSE LET s2 == [slf EXCEPT !.search_id = items[1].search_id,
                                    !.nse_scrip_code = items[1].nse_scrip_code]
              IN IF s2.search_id = NoId \/ s2.nse_scrip_code = NoId
                 THEN [ok |-> FALSE, self |-> s2, search |-> 1,
                       page |-> Warning("fetch_ticker_details")]
                 ELSE [ok |-> TRUE, self |-> s2, search |-> 1, page |-> <<>>]

\* variant: an instance that already holds a search id refuses to resolve again
fetch_ticker_details_Once(slf, up) ==
    IF slf.search_id # NoId
    THEN [ok |-> FALSE, self |-> slf, search |-> 0,
          page |-> Warning("fetch_ticker_details")]
    ELSE IF up.search.tag = "error"
    THEN [ok |-> FALSE, self |-> slf, search |-> 1,
          page |-> Error("fetch_ticker_details")]
    ELSE LET items == up.search.items IN
         IF items = <<>>
         THEN [ok |-> FALSE, self |-> slf, search |-> 1,
               page |-> Warning("fetch_ticker_details")]
         ELSE LET s2 == [slf EXCEPT !.search_id = items[1].search_id,
                                    !.nse_scrip_code = items[1].nse_scrip_code]
              IN IF s2.search_id = NoId \/ s2.nse_scrip_code = NoId
                 THEN [ok |-> FALSE, self |-> s2, search |-> 1,
                       page |-> Warning("fetch_ticker_details")]
                 ELSE [ok |-> TRUE, self |-> s2, search |-> 1, page |-> <<>>]

fetch_ticker_details(slf, up) ==
    IF up.search.tag = "error"
    THEN [ok |-> FALSE, self |-> slf, search |-> 1,
          page |-> Error("fetch_ticker_details")]
    ELSE LET items == up.search.items IN
         IF items = <<>>
         THEN [ok |-> FALSE, self |-> slf, search |-> 1,
               page |-> Warning("fetch_ticker_details")]
         ELSE LET s2 == [slf EXCEPT !.search_id = items[1].search_id,
                                    !.nse_scrip_code = items[1].nse_scrip_code]
              IN IF s2.search_id = NoId \/ s2.nse_scrip_code = NoId
                 THEN [ok |-> FALSE, self |-> s2, search |-> 1,
                       page |-> Warning("fetch_ticker_details")]
                 ELSE [ok |-> TRUE, self |-> s2, search |-> 1, page |-> <<>>]

----------------------------------------------------------------------------
(* ContractAnalyzer.fetch_closest_contract_ids *)

Abs(x) == IF x < 0 THEN -x ELSE x

\* the key of min(): abs(x['strikePrice'] / 100 - live_price), in hundredths
Dist(entry, live_price) == Abs(entry.strikePrice - live_price)

\* variant: the scan keeps the last of the entries at the minimal distance
RECURSIVE MinScanLast(_, _, _, _)
MinScanLast(chain, live_price, i, best) ==
    IF i > Len(chain) THEN best
    ELSE MinScanLast(chain, live_price, i + 1,
                     IF Dist(chain[i], live_price) <= Dist(chain[best], live_price)
                     THEN i ELSE best)

\* Python's min(iterable, key): scan in order, replace the best only by a
\* strictly smaller key
RECURSIVE MinScan(_, _, _, _)
MinScan(chain, live_price, i, best) ==
    IF i > Len(chain) THEN best
    ELSE MinScan(chain, live_price, i + 1,
                 IF Dist(chain[i], live_price) < Dist(chain[best], live_price)
                 THEN i ELSE best)

ClosestIndex(chain, live_price) == MinScan(chain, live_price, 2, 1)

\* variant: a failed option-chain request is issued a second time
fetch_closest_contract_ids_Retry(slf, up) ==
    IF up.chain.tag = "error"
    THEN [ok |-> FALSE, self |-> slf, chain |-> 2, price |-> 0,
          page |-> Error("fetch_closest_contract_ids")]
    ELSE IF up.chain.optionChains = <<>>
    THEN [ok |-> FALSE, self |-> slf, chain |-> 1, price |-> 0,
          page |-> Warning("fetch_closest_contract_ids")]
    ELSE IF up.price.tag = "error" \/ up.price.tag = "null"
    THEN [ok |-> FALSE, self |-> slf, chain |-> 1, price |-> 1,
          page |-> Error("fetch_closest_contract_ids")]
    ELSE LET option_chains == up.chain.optionChains
             k == ClosestIndex(option_chains, up.price.ltp)
             closest_chain == option_chains[k]
             s2 == [slf EXCEPT !.call_contract_id = closest_chain.callOption,
                               !.put_contract_id = closest_chain.putOption]
         IN IF s2.call_contract_id = NoId \/ s2.put_contract_id = NoId
            THEN [ok |-> FALSE, self |-> s2, chain |-> 1, price |-> 1,
                  page |-> Warning("fetch_closest_contract_ids")]
            ELSE [ok |-> TRUE, self |-> s2, chain |-> 1, price |-> 1, page |-> <<>>]

fetch_closest_contract_ids(slf, up) ==
    IF up.chain.tag = "error"
    THEN [ok |-> FALSE, self |-> slf, chain |-> 1, price |-> 0,
          page |-> Error("fetch_closest_contract_ids")]
    ELSE IF up.chain.optionChains = <<>>
    THEN [ok |-> FALSE, self |-> slf, chain |-> 1, price |-> 0,
          page |-> Warning("fetch_closest_contract_ids")]
    ELSE IF up.price.tag = "error" \/ up.price.tag = "null"
    \* raise_for_status()/json() raise, or abs(float - None) raises in min()
    THEN [ok |-> FALSE, self |-> slf, chain |-> 1, price |-> 1,
          page |-> Error("fetch_closest_contract_ids")]
    ELSE LET option_chains == up.chain.optionChains
             k == ClosestIndex(option_chains, up.price.ltp)
             closest_chain == option_chains[k]
             s2 == [slf EXCEPT !.call_contract_id = closest_chain.callOption,
                               !.put_contract_id = closest_chain.putOption]
         IN IF s2.call_contract_id = NoId \/ s2.put_contract_id = NoId
            THEN [ok |-> FALSE, self |-> s2, chain |-> 1, price |-> 1,
                  page |-> Warning("fetch_closest_contract_ids")]
            ELSE [ok |-> TRUE, self |-> s2, chain |-> 1, price |-> 1, page |-> <<>>]

----------------------------------------------------------------------------
(* ContractAnalyzer.fetch_contract_price_details *)

BaseColumns == {"time", "open", "high", "low", "close", "volume"}

RowsTo(n) == [i \in 1..n |-> i]

DataFrame(n) == [tag |-> "frame", rows |-> RowsTo(n), columns |-> BaseColumns]

\* variant: the absent contract id is not short-circuited
fetch_contract_price_details_NoShortCircuit(up, contract_id) ==
    LET reply == CandleHistory(up, contract_id) IN
    IF reply.tag = "error"
    THEN [data |-> None, candle |-> 1,
          page |-> Error("fetch_contract_price_details")]
    ELSE IF reply.candles = 0
    THEN [data |-> None, candle |-> 1, page |-> <<>>]
    ELSE [data |-> DataFrame(reply.candles), candle |-> 1, page |-> <<>>]

fetch_contract_price_details(up, contract_id) ==
    IF contract_id = NoId
    THEN [data |-> None, candle |-> 0, page |-> <<>>]
    ELSE LET reply == CandleHistory(up, contract_id) IN
         IF reply.tag = "error"
         THEN [data |-> None, candle |-> 1,
               page |-> Error("fetch_contract_price_details")]
         ELSE IF reply.candles = 0
         THEN [data |-> None, candle |-> 1, page |-> <<>>]
         ELSE [data |-> DataFrame(reply.candles), candle |-> 1, page |-> <<>>]

----------------------------------------------------------------------------
(* ContractAnalyzer.calculate_technical_indicators *)

MinCandles == 20        \* the length gate
RSI_Window == 14
RSI_SMA_Window == 14
SMA_Window == 20
BB_Window == 20
MACD_Slow == 26
MACD_Sign == 9
ADX_Window == 14
TSI_Slow == 25
TSI_Fast == 13

DerivedColumns ==
    <<"RSI", "RSI_SMA_14", "RSI_SMA-14_Difference", "SMA_20", "BB_Upper",
      "BB_Lower", "BollingerBandWidth", "MACD_Histogram", "ADX", "TSI">>

\* Position (1-based) of the first row at which a derived column is not NaN.
\*  RSI: the smoothed averages need RSI_Window rows.
\*  RSI_SMA_14: a rolling mean of RSI_SMA_Window values of RSI.
\*  SMA_20 and the bands: a rolling window of 20 closes.
\*  MACD_Histogram: the signal line is an average of MACD_Sign values of the
\*  MACD line, which needs MACD_Slow closes.
\*  ADX: the library pads with zeros, never with NaN.
\*  TSI: a double smoothing (TSI_Slow, then TSI_Fast values) of the first
\*  difference of close, which is undefined at the first row.
Lookback(col) ==
    CASE col = "RSI" -> RSI_Window
      [] col \in {"RSI_SMA_14", "RSI_SMA-14_Difference"} ->
            RSI_Window + RSI_SMA_Window - 1
      [] col = "SMA_20" -> SMA_Window
      [] col \in {"BB_Upper", "BB_Lower", "BollingerBandWidth"} -> BB_Window
      [] col = "MACD_Histogram" -> MACD_Slow + MACD_Sign - 1
      [] col = "ADX" -> 1
      [] col = "TSI" -> 1 + TSI_Slow + TSI_Fast - 1

Range(f) == { f[i] : i \in DOMAIN f }

\* the longest lookback of the derived columns
MaxLookback ==
    CHOOSE m \in { Lookback(c) : c \in Range(DerivedColumns) } :
        \A c \in Range(DerivedColumns) : Lookback(c) <= m

\* the value of column col at position i is defined (not NaN)
Defined(col, i) == i >= Lookback(col)

\* DataFrame.dropna(): keep the rows with no NaN in any column
dropna(data) ==
    LET keep == { i \in 1..Len(data.rows) :
                    \A col \in data.columns \ BaseColumns : Defined(col, i) }
        RECURSIVE Pick(_)
        Pick(i) == IF i > Len(data.rows) THEN <<>>
                   ELSE IF i \in keep THEN <<data.rows[i]>> \o Pick(i + 1)
                   ELSE Pick(i + 1)
    IN [data EXCEPT !.rows = Pick(1)]

\* ADXIndicator.adx() writes adx_series[window] of an array of
\* len(close) - (window - 1) entries: on a series of fewer than 2 * window
\* rows builds of the library raise IndexError, which the except clause turns
\* into None after the columns before 'ADX' were added to data.
AdxRaises(lb, n) == lb.adx_raises_short /\ n < 2 * ADX_Window

ColumnsBefore(col) ==
    { DerivedColumns[i] : i \in { j \in 1..Len(DerivedColumns) :
        \A k \in 1..j : DerivedColumns[k] # col } }

\* variant: the gate is the shortest window (RSI_Window) instead of MinCandles
calculate_technical_indicators_LowGate(data, lb) ==
    IF data = None
    THEN [out |-> None, data |-> data,
          page |-> Warning("calculate_technical_indicators")]
    ELSE IF Len(data.rows) < RSI_Window
    THEN [out |-> None, data |-> data,
          page |-> Warning("calculate_technical_indicators")]
    ELSE IF AdxRaises(lb, Len(data.rows))
    THEN [out |-> None,
          data |-> [data EXCEPT !.columns = @ \cup ColumnsBefore("ADX")],
          page |-> Error("calculate_technical_indicators")]
    ELSE LET d2 == [data EXCEPT !.columns = @ \cup Range(DerivedColumns)]
         IN [out |-> dropna(d2), data |-> d2, page |-> <<>>]

\* returns the frame (out) and the caller's data as the call leaves it: the
\* columns are added to data in place
calculate_technical_indicators(data, lb) ==
    IF data = None
    THEN [out |-> None, data |-> data,
          page |-> Warning("calculate_technical_indicators")]
    ELSE IF Len(data.rows) < MinCandles
    THEN [out |-> None, data |-> data,
          page |-> Warning("calculate_technical_indicators")]
    ELSE IF AdxRaises(lb, Len(data.rows))
    THEN [out |-> None,
          data |-> [data EXCEPT !.columns = @ \cup ColumnsBefore("ADX")],
          page |-> Error("calculate_technical_indicators")]
    ELSE LET d2 == [data EXCEPT !.columns = @ \cup Range(DerivedColumns)]
         IN [out |-> dropna(d2), data |-> d2, page |-> <<>>]

----------------------------------------------------------------------------
(* ContractAnalyzer.analysis_summary and ContractAnalyzer.analyze *)

\* calls of the gateway by each stage invocation of one run
NoCalls == [search |-> 0, chain |-> 0, price |-> 0, candle_call |-> 0, candle_put |-> 0]

\* technical.iloc[-1].to_dict() plus "contractId", or None
Summary(technical, contract_id) ==
    IF technical # None /\ technical.rows # <<>>
    THEN [tag |-> "row", row |-> technical.rows[Len(technical.rows)],
          columns |-> technical.columns \cup {"contractId"},
          contractId |-> contract_id]
    ELSE None

analysis_summary(slf, up, lb) ==
    LET t == fetch_ticker_details(slf, up) IN
    IF ~t.ok
    THEN [ret |-> None, self |-> t.self, page |-> t.page,
          calls |-> [NoCalls EXCEPT !.search = t.search]]
    ELSE LET c == fetch_closest_contract_ids(t.self, up) IN
    IF ~c.ok
    THEN [ret |-> None, self |-> c.self, page |-> t.page \o c.page,
          calls |-> [NoCalls EXCEPT !.search = t.search, !.chain = c.chain,
                                    !.price = c.price]]
    ELSE LET call_data == fetch_contract_price_details(up, c.self.call_contract_id)
             put_data == fetch_contract_price_details(up, c.self.put_contract_id)
             call_technical == calculate_technical_indicators(call_data.data, lb)
             put_technical == calculate_technical_indicators(put_data.data, lb)
         IN [ret |-> [tag |-> "summary",
                      Call |-> Summary(call_technical.out, c.self.call_contract_id),
                      Put |-> Summary(put_technical.out, c.self.put_contract_id)],
             self |-> c.self,
             page |-> t.page \o c.page \o call_data.page \o put_data.page
                      \o call_technical.page \o put_technical.page,
             calls |-> [search |-> t.search, chain |-> c.chain, price |-> c.price,
                        candle_call |-> call_data.candle,
                        candle_put |-> put_data.candle]]

analyze(slf, up, lb) ==
    LET t == fetch_ticker_details(slf, up) IN
    IF ~t.ok
    THEN [ret |-> None, self |-> t.self, page |-> t.page,
          calls |-> [NoCalls EXCEPT !.search = t.search]]
    ELSE LET c == fetch_closest_contract_ids(t.self, up) IN
    IF ~c.ok
    THEN [ret |-> None, self |-> c.self, page |-> t.page \o c.page,
          calls |-> [NoCalls EXCEPT !.search = t.search, !.chain = c.chain,
                                    !.price = c.price]]
    ELSE LET call_data == fetch_contract_price_details(up, c.self.call_contract_id)
             put_data == fetch_contract_price_details(up, c.self.put_contract_id)
             call_technical == calculate_technical_indicators(call_data.data, lb)
             put_technical == calculate_technical_indicators(put_data.data, lb)
         IN [ret |-> [tag |-> "results",
                      Call |-> [data |-> call_technical.out,
                                contractId |-> c.self.call_contract_id],
                      Put |-> [data |-> put_technical.out,
                               contractId |-> c.self.put_contract_id]],
             self |-> c.self,
             page |-> t.page \o c.page \o call_data.page \o put_data.page
                      \o call_technical.page \o put_technical.page,
             calls |-> [search |-> t.search, chain |-> c.chain, price |-> c.price,
                        candle_call |-> call_data.candle,
                        candle_put |-> put_data.candle]]

\* the requests of one run, added to the requests issued so far
Issued(g, k) ==
    [search |-> g.search + k.search, chain |-> g.chain + k.chain,
     price |-> g.price + k.price,
     candle |-> g.candle + k.candle_call + k.candle_put]

----------------------------------------------------------------------------
(* The environment: what the market-data service answers for one ticker.   *)
(* A reply that no request can reach (the chain of a name the search does  *)
(* not resolve, the candles under a missing price) is fixed, as nothing    *)
(* observes it.                                                            *)

Unset == [tag |-> "unset"]

Resolved(search) ==
    /\ search.tag = "ok"
    /\ search.items # <<>>
    /\ search.items[1].search_id # NoId
    /\ search.items[1].nse_scrip_code # NoId

Listed(chain) == chain.tag = "ok" /\ chain.optionChains # <<>>

\* candle histories the pipeline is run on: an error, Empty, Insufficient,
\* past the gate but short of the longest lookback, enough for every indicator
PipelineCandles ==
    { CandleError, CandleReply(0), CandleReply(MinCandles - 1),
      CandleReply(2 * ADX_Window + 2), CandleReply(MaxLookback) }

Snapshots(chains, prices, candles) ==
    { u \in [search : SearchReplies, chain : chains, price : prices,
             candles : [call : candles, put : candles]] :
        /\ ~Resolved(u.search) => u.chain = [tag |-> "error"]
        /\ ~Listed(u.chain) => u.price = [tag |-> "error"]
        /\ u.price.tag # "ok" => u.candles = [call |-> CandleError, put |-> CandleError] }

Upstreams == Snapshots(ChainReplies, PriceReplies, PipelineCandles)

Libs == [adx_raises_short : BOOLEAN]

\* the service before main() has named a ticker
NoService ==
    [search |-> [tag |-> "error"], chain |-> [tag |-> "error"],
     price |-> [tag |-> "error"],
     candles |-> [call |-> CandleError, put |-> CandleError]]

\* main() is given chains of one entry and one price: more adds nothing to
\* the loop
BatchUpstreams ==
    Snapshots({ [tag |-> "error"], [tag |-> "ok", optionChains |-> <<>>] }
              \cup { [tag |-> "ok", optionChains |-> <<Entry(10100, c, q)>>] :
                        c \in BOOLEAN, q \in BOOLEAN },
              { [tag |-> "error"], [tag |-> "ok", ltp |-> 10000] },
              { CandleError, CandleReply(2 * ADX_Window + 2), CandleReply(MaxLookback) })

\* the replies the selection stages are called on directly
SelectUpstreams ==
    [search : SearchReplies, chain : ChainReplies, price : PriceReplies,
     candles : {[call |-> CandleError, put |-> CandleError]}]

\* the replies the candle and indicator stages are called on directly
EngineUpstreams ==
    [search : {[tag |-> "error"]}, chain : {[tag |-> "error"]},
     price : {[tag |-> "error"]},
     candles : [call : {CandleError} \cup { CandleReply(n) : n \in 0..MaxCandles },
                put : PipelineCandles]]

ContractIds == {NoId} \cup { CallIdOf(s) : s \in Strikes } \cup { PutIdOf(s) : s \in Strikes }

----------------------------------------------------------------------------
(* State after construction *)

Fresh ==
    /\ self = NewAnalyzer
    /\ gateway = NoRequests
    /\ page = <<>>
    /\ op = [name |-> "__init__"]
    /\ ret = Unset
    /\ calls = NoCalls
    /\ results = Unset
    /\ prev_results = Unset
    /\ contracts_results = Unset
    /\ runs = 0
    /\ ticker = 1
    /\ charts = <<>>
    /\ call_data_list = <<>>
    /\ put_data_list = <<>>

main_vars == <<pc, ticker, charts, call_data_list, put_data_list>>
view_vars == <<results, prev_results, contracts_results>>

----------------------------------------------------------------------------
(* The two views, called on one instance against an unchanged snapshot *)

\* The builds of the indicator library differ only on series of MinCandles
\* to 2 * ADX_Window - 1 rows; PipelineCandles has none, so one build stands
\* for both here (SpecEngine runs every length on both).
Init ==
    /\ upstream \in Upstreams
    /\ lib = [adx_raises_short |-> TRUE]
    /\ pc = "api"
    /\ Fresh

Analyze ==
    /\ pc = "api"
    /\ runs < MaxRuns
    /\ LET r == analyze(self, upstream, lib) IN
        /\ self' = r.self
        /\ prev_results' = results
        /\ results' = r.ret
        /\ ret' = r.ret
        /\ calls' = r.calls
        /\ gateway' = Issued(gateway, r.calls)
        /\ page' = page \o r.page
    /\ op' = [name |-> "analyze"]
    /\ runs' = runs + 1
    /\ UNCHANGED <<upstream, lib, contracts_results, main_vars>>

AnalysisSummary ==
    /\ pc = "api"
    /\ runs < MaxRuns
    /\ LET r == analysis_summary(self, upstream, lib) IN
        /\ self' = r.self
        /\ contracts_results' = r.ret
        /\ ret' = r.ret
        /\ calls' = r.calls
        /\ gateway' = Issued(gateway, r.calls)
        /\ page' = page \o r.page
    /\ op' = [name |-> "analysis_summary"]
    /\ runs' = runs + 1
    /\ UNCHANGED <<upstream, lib, results, prev_results, main_vars>>

Next == Analyze \/ AnalysisSummary

Spec == Init /\ [][Next]_vars

----------------------------------------------------------------------------
(* The selection stages, called directly *)

InitSelect ==
    /\ upstream \in SelectUpstreams
    /\ lib = [adx_raises_short |-> FALSE]
    /\ pc = "api"
    /\ Fresh

FetchTickerDetails ==
    /\ pc = "api"
    /\ runs < MaxDirect
    /\ LET r == fetch_ticker_details(self, upstream) IN
        /\ self' = r.self
        /\ ret' = [tag |-> "bool", ok |-> r.ok]
        /\ calls' = [NoCalls EXCEPT !.search = r.search]
        /\ gateway' = [gateway EXCEPT !.search = @ + r.search]
        /\ page' = page \o r.page
    /\ op' = [name |-> "fetch_ticker_details"]
    /\ runs' = runs + 1
    /\ UNCHANGED <<upstream, lib, view_vars, main_vars>>

FetchClosestContractIds ==
    /\ pc = "api"
    /\ runs < MaxDirect
    /\ LET r == fetch_closest_contract_ids(self, upstream) IN
        /\ self' = r.self
        /\ ret' = [tag |-> "bool", ok |-> r.ok]
        /\ calls' = [NoCalls EXCEPT !.chain = r.chain, !.price = r.price]
        /\ gateway' = [gateway EXCEPT !.chain = @ + r.chain, !.price = @ + r.price]
        /\ page' = page \o r.page
    /\ op' = [name |-> "fetch_closest_contract_ids"]
    /\ runs' = runs + 1
    /\ UNCHANGED <<upstream, lib, view_vars, main_vars>>

NextSelect == FetchTickerDetails \/ FetchClosestContractIds

SpecSelect == InitSelect /\ [][NextSelect]_vars

----------------------------------------------------------------------------
(* The candle and indicator stages, called directly *)

InitEngine ==
    /\ upstream \in EngineUpstreams
    /\ lib \in Libs
    /\ pc = "api"
    /\ Fresh

FetchContractPriceDetails ==
    /\ pc = "api"
    /\ runs < MaxDirect
    /\ \E contract_id \in ContractIds :
        LET r == fetch_contract_price_details(upstream, contract_id) IN
        /\ ret' = r.data
        /\ calls' = [NoCalls EXCEPT !.candle_call = r.candle]
        /\ gateway' = [gateway EXCEPT !.candle = @ + r.candle]
        /\ page' = page \o r.page
        /\ op' = [name |-> "fetch_contract_price_details", arg |-> contract_id]
    /\ runs' = runs + 1
    /\ UNCHANGED <<upstream, lib, self, view_vars, main_vars>>

\* called on the data the fetch before it returned
CalculateTechnicalIndicators ==
    /\ pc = "api"
    /\ runs < MaxDirect
    /\ op.name = "fetch_contract_price_details"
    /\ LET r == calculate_technical_indicators(ret, lib) IN
        /\ ret' = r.out
        /\ op' = [name |-> "calculate_technical_indicators", arg |-> ret,
                  data |-> r.data]
        /\ page' = page \o r.page
    /\ calls' = NoCalls
    /\ runs' = runs + 1
    /\ UNCHANGED <<upstream, lib, self, gateway, view_vars, main_vars>>

NextEngine == FetchContractPriceDetails \/ CalculateTechnicalIndicators

SpecEngine == InitEngine /\ [][NextEngine]_vars

----------------------------------------------------------------------------
(* main(): the loop over the tickers of the uploaded file *)

InitBatch ==
    /\ upstream = NoService
    /\ lib \in Libs
    /\ pc = "construct"
    /\ Fresh

\* analyzer = ContractAnalyzer(ticker.strip(), ...): the next ticker is
\* answered by its own replies of the service
MainConstruct ==
    /\ pc = "construct"
    /\ ticker <= MaxTickers
    /\ upstream' \in BatchUpstreams
    /\ page' = page \o << [level |-> "write", at |-> "main", ticker |-> ticker] >>
    /\ self' = NewAnalyzer
    /\ runs' = 0
    /\ op' = [name |-> "__init__"]
    /\ ret' = Unset
    /\ calls' = NoCalls
    /\ pc' = "analyze"
    /\ UNCHANGED <<lib, gateway, view_vars, ticker, charts, call_data_list,
                   put_data_list>>

\* results = analyzer.analyze()
MainAnalyze ==
    /\ pc = "analyze"
    /\ LET r == analyze(self, upstream, lib) IN
        /\ self' = r.self
        /\ prev_results' = results
        /\ results' = r.ret
        /\ ret' = r.ret
        /\ calls' = r.calls
        /\ gateway' = Issued(gateway, r.calls)
        /\ page' = page \o r.page
    /\ op' = [name |-> "analyze"]
    /\ runs' = runs + 1
    /\ pc' = "summary"
    /\ UNCHANGED <<upstream, lib, contracts_results, ticker, charts,
                   call_data_list, put_data_list>>

\* contracts_results = analyzer.analysis_summary()
MainSummary ==
    /\ pc = "summary"
    /\ LET r == analysis_summary(self, upstream, lib) IN
        /\ self' = r.self
        /\ contracts_results' = r.ret
        /\ ret' = r.ret
        /\ calls' = r.calls
        /\ gateway' = Issued(gateway, r.calls)
        /\ page' = page \o r.page
    /\ op' = [name |-> "analysis_summary"]
    /\ runs' = runs + 1
    /\ pc' = "plot"
    /\ UNCHANGED <<upstream, lib, results, prev_results, ticker, charts,
                   call_data_list, put_data_list>>

\* "results and results[leg] and results[leg]['data'] is not None":
\* results[leg] is a dict of two keys, always truthy
Plots(res, leg) == res # None /\ res[leg].data # None

\* "contracts_results and contracts_results[leg]"
HasRow(cres, leg) == cres # None /\ cres[leg] # None

Chart(t, res, leg) ==
    IF Plots(res, leg)
    THEN << [ticker |-> t, leg |-> leg, rows |-> Len(res[leg].data.rows),
             contractId |-> res[leg].contractId] >>
    ELSE <<>>

Row(t, res, cres, leg) ==
    IF Plots(res, leg) /\ HasRow(cres, leg)
    THEN << [Ticker |-> t, contractId |-> cres[leg].contractId] >>
    ELSE <<>>

\* the two "if results and ..." blocks, then the next ticker
MainPlot ==
    /\ pc = "plot"
    /\ charts' = charts \o Chart(ticker, results, "Call") \o Chart(ticker, results, "Put")
    /\ call_data_list' = call_data_list \o Row(ticker, results, contracts_results, "Call")
    /\ put_data_list' = put_data_list \o Row(ticker, results, contracts_results, "Put")
    /\ ticker' = ticker + 1
    /\ pc' = IF ticker = MaxTickers THEN "save" ELSE "construct"
    /\ UNCHANGED <<upstream, lib, self, gateway, page, op, ret, calls, view_vars,
                   runs>>

\* "if call_data_list or put_data_list": write the sheets, else st.error
MainSave ==
    /\ pc = "save"
    /\ pc' = IF call_data_list # <<>> \/ put_data_list # <<>> THEN "saved" ELSE "no_rows"
    /\ UNCHANGED <<upstream, lib, self, gateway, page, op, ret, calls, view_vars,
                   runs, ticker, charts, call_data_list, put_data_list>>

NextBatch == MainConstruct \/ MainAnalyze \/ MainSummary \/ MainPlot \/ MainSave

SpecBatch == InitBatch /\ [][NextBatch]_vars

----------------------------------------------------------------------------
(* Properties *)

Legs == {"Call", "Put"}

FirstClosest(chain, live_price, k) ==
    /\ \A j \in 1..Len(chain) : Dist(chain[k], live_price) <= Dist(chain[j], live_price)
    /\ \A j \in 1..(k - 1) : Dist(chain[j], live_price) > Dist(chain[k], live_price)

IdsTakenFrom(entry) ==
    /\ self.call_contract_id = entry.callOption
    /\ self.put_contract_id = entry.putOption

\* C1: after fetch_closest_contract_ids on a non-empty chain and a numeric
\* latest price, the call and put ids of the instance are those of the chain
\* entry at minimal abs(strikePrice/100 - price), the first such entry in
\* chain order; the only entry of a one-entry chain is taken.
C1_ClosestFirstEntry ==
    (op.name = "fetch_closest_contract_ids" /\ Listed(upstream.chain)
        /\ upstream.price.tag = "ok") =>
    LET chain == upstream.chain.optionChains
        ltp == upstream.price.ltp
    IN /\ \E k \in 1..Len(chain) :
            FirstClosest(chain, ltp, k) /\ IdsTakenFrom(chain[k])
       /\ Len(chain) = 1 => IdsTakenFrom(chain[1])

\* two different entries at the same distance: the first one's ids are taken
C1_Witness ==
    /\ op.name = "fetch_closest_contract_ids"
    /\ Listed(upstream.chain)
    /\ upstream.price.tag = "ok"
    /\ Len(upstream.chain.optionChains) = 2
    /\ LET chain == upstream.chain.optionChains
           ltp == upstream.price.ltp
       IN /\ Dist(chain[1], ltp) = Dist(chain[2], ltp)
          /\ chain[1].callOption # NoId
          /\ chain[2].callOption # NoId
          /\ chain[1].callOption # chain[2].callOption
          /\ self.call_contract_id = chain[1].callOption

\* the entry the selection takes for a snapshot
Selected(up) ==
    up.chain.optionChains[ClosestIndex(up.chain.optionChains, up.price.ltp)]

Reaches(up) == Resolved(up.search) /\ Listed(up.chain) /\ up.price.tag = "ok"

Enough(reply) == reply.tag = "ok" /\ reply.candles >= MaxLookback

\* the leg of a view holds indicator data
Populated(view, leg) ==
    /\ view # None
    /\ IF view.tag = "results"
       THEN view[leg].data # None /\ view[leg].data.rows # <<>>
       ELSE view[leg] # None

\* C2: when the selected entry has a call id and no put id and the call
\* contract has enough candles, analyze and analysis_summary return a result
\* whose Call leg is populated.
C2_OneLegSurvives ==
    (op.name \in {"analyze", "analysis_summary"} /\ Reaches(upstream)
        /\ Selected(upstream).callOption # NoId
        /\ Selected(upstream).putOption = NoId
        /\ Enough(upstream.candles.call)) =>
    Populated(ret, "Call")

\* a leg for which a stage yields Empty or Insufficient
Short(reply) == reply.tag = "ok" /\ reply.candles < MinCandles

\* C3: a leg whose candle history is Empty or Insufficient is entirely absent
\* from the result of analyze: no data and no contract id.
C3_AbsentLegIsTotal ==
    \A leg \in Legs :
        (results # Unset /\ results # None
            /\ Short(IF leg = "Call" THEN upstream.candles.call
                     ELSE upstream.candles.put)) =>
        (results[leg].data = None /\ results[leg].contractId = NoId)

\* C4: a series of 20 or more candles comes back without its first 19 rows
\* (20 being the largest lookback), and so a non-empty frame.
C4_DropsNineteenRows ==
    (op.name = "calculate_technical_indicators" /\ op.arg # None
        /\ Len(op.arg.rows) >= 20) =>
    /\ ret # None
    /\ ret.rows = SubSeq(op.arg.rows, 20, Len(op.arg.rows))
    /\ ret.rows # <<>>

\* C5: when the search returns an empty list, no option-chain, latest-price
\* or candle-history request is ever issued and both views report no leg.
C5_EmptySearchStopsRun ==
    upstream.search = [tag |-> "ok", items |-> <<>>] =>
    /\ gateway.chain = 0 /\ gateway.price = 0 /\ gateway.candle = 0
    /\ results \in {Unset, None}
    /\ contracts_results \in {Unset, None}

C5_Witness ==
    /\ upstream.search = [tag |-> "ok", items |-> <<>>]
    /\ results = None
    /\ contracts_results = None
    /\ gateway.search = 2

\* C6: a call of fetch_contract_price_details with an absent contract id
\* returns None and leaves the number of candle-history requests unchanged.
C6_AbsentIdNoRequest ==
    [][(op'.name = "fetch_contract_price_details" /\ op'.arg = NoId) =>
        (ret' = None /\ gateway'.candle = gateway.candle)]_vars

\* an absent id after a request for a present one
C6_Witness ==
    /\ op.name = "fetch_contract_price_details"
    /\ op.arg = NoId
    /\ ret = None
    /\ gateway.candle = 1

\* C7: two analyze calls on one instance against the same snapshot return the
\* same value, and analyze and analysis_summary agree on whether a result is
\* returned and on the contract id of every leg the summary reports.
C7_Idempotent ==
    /\ (results # Unset /\ prev_results # Unset) => results = prev_results
    /\ (results # Unset /\ contracts_results # Unset) =>
        /\ results = None <=> contracts_results = None
        /\ results # None =>
            \A leg \in Legs :
                contracts_results[leg] # None =>
                    contracts_results[leg].contractId = results[leg].contractId

C7_Witness ==
    /\ prev_results # Unset
    /\ results # None
    /\ results = prev_results
    /\ Populated(results, "Call")
    /\ contracts_results # Unset
    /\ Populated(contracts_results, "Call")
    /\ contracts_results.Call.contractId = results.Call.contractId

Last(q) == q[Len(q)]

LegData(view, leg) == IF view.tag = "results" THEN view[leg].data ELSE view[leg]

\* C8: in main()'s loop no stage invocation issues a gateway request twice; a
\* failed request is reported on the page and leaves the stage's result
\* absent; and when the loop has ended every ticker was announced and ran
\* both views.
C8_FailuresContained ==
    /\ \A f \in DOMAIN calls : calls[f] <= 1
    /\ op.name \in {"analyze", "analysis_summary"} =>
        /\ upstream.search.tag = "error" =>
            /\ ret = None
            /\ Last(page) = [level |-> "error", at |-> "fetch_ticker_details"]
        /\ (Resolved(upstream.search)
              /\ (upstream.chain.tag = "error"
                  \/ (Listed(upstream.chain) /\ upstream.price.tag = "error"))) =>
            /\ ret = None
            /\ Last(page) = [level |-> "error", at |-> "fetch_closest_contract_ids"]
        /\ ret # None =>
            \A leg \in Legs :
                (IF leg = "Call" THEN upstream.candles.call
                 ELSE upstream.candles.put) = CandleError =>
                    /\ LegData(ret, leg) = None
                    /\ \E i \in DOMAIN page :
                        page[i] = [level |-> "error",
                                   at |-> "fetch_contract_price_details"]
    /\ pc \in {"saved", "no_rows"} =>
        /\ Cardinality({ i \in DOMAIN page : page[i].level = "write" }) = MaxTickers
        /\ gateway.search = 2 * MaxTickers

\* a ticker whose run reported an error is followed by a ticker with a chart
C8_Witness ==
    /\ pc = "saved"
    /\ \E i, j \in DOMAIN page :
        /\ i < j
        /\ page[i].level = "error"
        /\ page[i].at \in {"fetch_ticker_details", "fetch_closest_contract_ids",
                           "fetch_contract_price_details"}
        /\ page[j].level = "write"
    /\ \E k \in DOMAIN charts : charts[k].ticker = MaxTickers /\ charts[k].rows > 0

\* C9: calculate_technical_indicators returns None for None and for every
\* frame of fewer than 20 rows, and adds no column to the frame.
C9_ShortSeriesInsufficient ==
    (op.name = "calculate_technical_indicators"
        /\ (op.arg = None \/ Len(op.arg.rows) < 20)) =>
    (ret = None /\ op.data = op.arg)

C9_Witness ==
    /\ op.name = "calculate_technical_indicators"
    /\ op.arg # None
    /\ Len(op.arg.rows) = 19
    /\ ret = None
    /\ op.data.columns = BaseColumns

\* C10: a leg has a series in the result of analyze exactly if it has a
\* latest row in the result of analysis_summary.
C10_ViewsAgree ==
    (results # Unset /\ contracts_results # Unset) =>
    \A leg \in Legs : Plots(results, leg) <=> HasRow(contracts_results, leg)

====
